---- MODULE Spec2Model ----
(***************************************************************************)
(* A model of templater's line classifier (mod parser in main.rs) and of   *)
(* process_content, the nested-inclusion state machine.                    *)
(*                                                                         *)
(* A line of text is a sequence of one-character strings.  The reader      *)
(* (BufRead::lines) hands process_content one line at a time; `lines` is   *)
(* the sequence of lines it has handed over so far.                        *)
(***************************************************************************)
EXTENDS Integers, Sequences, FiniteSets, TLC

\* ------------------------------------------------------------------------
\* Bounds
\* ------------------------------------------------------------------------
\* Longest file the reader delivers.
MaxLines == 4
\* Terms of an And/Or condition handed to Condition::evaluate on its own.
MaxTerms == 3
\* Lines of a file made of directive lines with text around the directive.
MaxTextLines == 2
\* Condition texts handed to parse_condition_str: free texts of up to
\* MaxPieces pieces, and "(and"/"(or" followed by up to MaxBody pieces.
MaxPieces == 3
MaxBody == 6
\* main's walk: files visited, and lines of each file.
MaxFiles == 2
MaxFileLines == 3
\* Lines of all the files of a source tree taken together.
MaxTreeLines == 2
\* Candidates handed to find_closest_match on its own.
MaxCandidates == 3

\* ------------------------------------------------------------------------
\* Text: characters, flag names and the lines a file is made of
\* ------------------------------------------------------------------------
A == <<"a">>
B == <<"b">>
FlagNames == {A, B}

\* What the accumulator may hold when process_content is entered: nothing
\* (the first file), or a flag an earlier file recorded.
EntryUsed == {{}, {B}}

Sp == <<" ">>
HashIf == <<"#", "i", "f">>
HashEndif == <<"#", "e", "n", "d", "i", "f">>
TagAnd == <<"(", "a", "n", "d">>
TagOr == <<"(", "o", "r">>

LineContent == <<"x">>
LineBlank == <<" ">>
LineIfA == HashIf \o Sp \o A
LineIfB == <<" ">> \o HashIf \o Sp \o B \o Sp
LineEndif == HashEndif
LineIfAnd == HashIf \o Sp \o TagAnd \o Sp \o A \o Sp \o Sp \o B \o Sp \o <<")">>
LineIfUnclosed == HashIf \o Sp \o TagAnd \o Sp \o A
LineInline == <<"x">> \o Sp \o HashIf \o Sp \o A

\* The lines a file may consist of.
Lines ==
  { LineContent, LineBlank, LineIfA, LineIfB, LineEndif, LineIfAnd,
    LineIfUnclosed, LineInline }

\* The lines of the files main walks over.
MainLines == {LineContent, LineBlank, LineIfA, LineEndif}

\* The lines of the files of a source tree that is walked, then scanned.
TreeLines == {LineContent, LineIfA, LineIfAnd, LineEndif}

\* Directive lines with something before or after the directive.
FormFeed == <<"\f">>
LineIfLeftover == HashIf \o Sp \o A \o Sp \o B
LineIfOrLeftover == HashIf \o Sp \o TagOr \o Sp \o A \o Sp \o B \o <<")">> \o Sp \o <<"x">>
LineEndifComment == HashEndif \o Sp \o <<"/", "/", "x">>
LineEndifGlued == <<"\t">> \o Sp \o HashEndif \o <<"x">>
LineEndifFormFeed == FormFeed \o HashEndif

TextLines ==
  { LineContent, LineIfA, LineEndif, LineIfLeftover, LineIfOrLeftover,
    LineEndifComment, LineEndifGlued, LineEndifFormFeed }

\* ------------------------------------------------------------------------
\* nom combinators, as the parser uses them.  A parser maps its input to
\* [ok, val, rest]; ok = FALSE is nom::Err::Error (a recoverable failure,
\* after which alt tries its next branch).  A combinator named after_p
\* runs p on what the parser before it left over, as the sequencing
\* combinators (tuple, preceded, terminated, delimited) do.
\* ------------------------------------------------------------------------
Fail(input) == [ok |-> FALSE, val |-> <<>>, rest |-> input]
Done(val, rest) == [ok |-> TRUE, val |-> val, rest |-> rest]

DropFirst(s, n) == SubSeq(s, n + 1, Len(s))

\* char::is_whitespace (Unicode White_Space): the form feed stands for the
\* white space that nom's multispace does not take (VT, FF, NBSP, ...).
is_whitespace(c) == c \in {" ", "\t", "\r", "\n", "\f"}

\* nom's multispace0/multispace1: spaces, tabs, carriage returns, line feeds.
is_multispace(c) == c \in {" ", "\t", "\r", "\n"}

RECURSIVE SpaceLen(_)
SpaceLen(s) ==
  IF s # <<>> /\ is_multispace(Head(s)) THEN 1 + SpaceLen(Tail(s)) ELSE 0

multispace0(input) == Done(<<>>, DropFirst(input, SpaceLen(input)))

multispace1(input) ==
  IF input # <<>> /\ is_multispace(Head(input)) THEN multispace0(input) ELSE Fail(input)

tag(t, input) ==
  IF Len(input) >= Len(t) /\ SubSeq(input, 1, Len(t)) = t
  THEN Done(t, DropFirst(input, Len(t)))
  ELSE Fail(input)

\* take_while1(|c| !c.is_whitespace() && c != '(' && c != ')')
RECURSIVE IdentLen(_)
IdentLen(s) ==
  IF s # <<>> /\ ~is_whitespace(Head(s)) /\ Head(s) # "(" /\ Head(s) # ")"
  THEN 1 + IdentLen(Tail(s))
  ELSE 0

take1(input, n) ==
  IF n = 0 THEN Fail(input) ELSE Done(SubSeq(input, 1, n), DropFirst(input, n))

identifier(input) == take1(input, IdentLen(input))

\* Sequencing: the next parser runs on the rest of a successful result; the
\* combinators that discard the next parser's value keep the earlier one.
after_multispace1(r) == IF r.ok THEN multispace1(r.rest) ELSE r
after_identifier(r) == IF r.ok THEN identifier(r.rest) ELSE r
after_multispace0(r) == IF r.ok THEN Done(r.val, multispace0(r.rest).rest) ELSE r
after_close_paren(r) ==
  IF r.ok /\ tag(<<")">>, r.rest).ok THEN Done(r.val, DropFirst(r.rest, 1)) ELSE Fail(r.rest)

\* separated_list1(multispace1, identifier): after the first identifier,
\* repeat (separator, identifier); when either fails the list ends BEFORE
\* the separator.
RECURSIVE ListMore(_, _, _)
ListMore(acc, input, next) ==
  IF ~next.ok THEN Done(acc, input)
  ELSE ListMore(Append(acc, next.val), next.rest,
                after_identifier(multispace1(next.rest)))

list_from(first) ==
  IF ~first.ok THEN first
  ELSE ListMore(<<first.val>>, first.rest, after_identifier(multispace1(first.rest)))

separated_list1(input) == list_from(identifier(input))

after_separated_list1(r) == IF r.ok THEN separated_list1(r.rest) ELSE r

\* ------------------------------------------------------------------------
\* Conditions
\* ------------------------------------------------------------------------
Single(flag) == [type |-> "Single", terms |-> <<flag>>]
And(terms) == [type |-> "And", terms |-> terms]
Or(terms) == [type |-> "Or", terms |-> terms]
NoCondition == [type |-> "None", terms |-> <<>>]

Range(s) == {s[i] : i \in 1..Len(s)}

\* Variant: Or evaluated with all() instead of any().
evaluate_or_as_all(cond, flagSet, used) ==
  [ met |-> CASE cond.type = "Single" -> cond.terms[1] \in flagSet
              [] cond.type = "And" -> \A i \in 1..Len(cond.terms) : cond.terms[i] \in flagSet
              [] cond.type = "Or" -> \A i \in 1..Len(cond.terms) : cond.terms[i] \in flagSet
              [] OTHER -> FALSE,
    used |-> used \cup Range(cond.terms) ]

\* Variant: the terms are recorded as all()/any() visit them, so recording
\* stops at the term that decides the result.
evaluate_short_circuit(cond, flagSet, used) ==
  [ met |-> CASE cond.type = "Single" -> cond.terms[1] \in flagSet
              [] cond.type = "And" -> \A i \in 1..Len(cond.terms) : cond.terms[i] \in flagSet
              [] cond.type = "Or" -> \E i \in 1..Len(cond.terms) : cond.terms[i] \in flagSet
              [] OTHER -> FALSE,
    used |-> used \cup
             { cond.terms[i] : i \in { k \in 1..Len(cond.terms) :
                 \A j \in 1..(k - 1) : (cond.terms[j] \in flagSet) = (cond.type = "And") } } ]

\* Condition::evaluate: the truth value, and used_flags after the call.
evaluate(cond, flagSet, used) ==
  [ met |-> CASE cond.type = "Single" -> cond.terms[1] \in flagSet
              [] cond.type = "And" -> \A i \in 1..Len(cond.terms) : cond.terms[i] \in flagSet
              [] cond.type = "Or" -> \E i \in 1..Len(cond.terms) : cond.terms[i] \in flagSet
              [] OTHER -> FALSE,
    used |-> used \cup Range(cond.terms) ]

\* delimited(tag(kw), preceded(multispace1, separated_list1(..)),
\*           preceded(multispace0, char(')')))
ListForm(kw, input) ==
  after_close_paren(
    after_multispace0(after_separated_list1(after_multispace1(tag(kw, input)))))

\* map(parser, f)
map_and(r) == IF r.ok THEN Done(And(r.val), r.rest) ELSE r
map_or(r) == IF r.ok THEN Done(Or(r.val), r.rest) ELSE r
map_single(r) == IF r.ok THEN Done(Single(r.val), r.rest) ELSE r

parse_and(input) == map_and(ListForm(TagAnd, input))

parse_or(input) == map_or(ListForm(TagOr, input))

parse_single(input) == map_single(identifier(input))

\* alt: the first alternative that succeeds, else the last one's error.
alt3(first, second, third) ==
  IF first.ok THEN first ELSE IF second.ok THEN second ELSE third

parse_condition(input) ==
  alt3(parse_and(input), parse_or(input), parse_single(input))

after_parse_condition(r) == IF r.ok THEN parse_condition(r.rest) ELSE r

\* Variant: the "#if" keyword is looked for anywhere in the line.
if_marker_anywhere(input) ==
  IF \E p \in 0..Len(input) : tag(HashIf, DropFirst(input, p)).ok
  THEN after_multispace1(tag(HashIf, DropFirst(input,
         CHOOSE p \in 0..Len(input) : tag(HashIf, DropFirst(input, p)).ok)))
  ELSE Fail(input)

\* The "#if" keyword and the whitespace it requires:
\* tuple((multispace0, tag("#if"), multispace1))
if_marker(input) == after_multispace1(tag(HashIf, multispace0(input).rest))

\* preceded(if_marker, terminated(parse_condition, multispace0))
parse_if_directive(input) ==
  after_multispace0(after_parse_condition(if_marker(input)))

\* Variant: "#endif" must be all there is on the line.
parse_endif_directive_whole_line(input) ==
  IF after_multispace0(tag(HashEndif, multispace0(input).rest)).rest = <<>>
  THEN after_multispace0(tag(HashEndif, multispace0(input).rest))
  ELSE Fail(input)

\* recognize(tuple((multispace0, tag("#endif"), multispace0)))
parse_endif_directive(input) ==
  after_multispace0(tag(HashEndif, multispace0(input).rest))

\* The classification of one line: err is "none" for Ok((rest, kind..)),
\* else the nom::Err variant.
Classified(kind, cond, content, rest) ==
  [err |-> "none", kind |-> kind, cond |-> cond, content |-> content, rest |-> rest]

\* Variant: once the "#if" marker is read, a condition that does not
\* parse is a failure of the whole line instead of a fall through.
alt_line_cut(input, if_result, endif_result) ==
  IF if_result.ok THEN Classified("If", if_result.val, <<>>, if_result.rest)
  ELSE IF if_marker(input).ok
  THEN [err |-> "Failure", kind |-> "none", cond |-> NoCondition,
        content |-> <<>>, rest |-> input]
  ELSE IF endif_result.ok THEN Classified("Endif", NoCondition, <<>>, endif_result.rest)
  ELSE Classified("Content", NoCondition, input, <<>>)

\* alt((parse_if_directive, parse_endif_directive, map(rest, Content))):
\* the last branch accepts every input, so the alt never fails.
alt_line(input, if_result, endif_result) ==
  IF if_result.ok THEN Classified("If", if_result.val, <<>>, if_result.rest)
  ELSE IF endif_result.ok THEN Classified("Endif", NoCondition, <<>>, endif_result.rest)
  ELSE Classified("Content", NoCondition, input, <<>>)

parse_line(input) ==
  alt_line(input, parse_if_directive(input), parse_endif_directive(input))

\* ------------------------------------------------------------------------
\* str::trim_start, str::trim, str::strip_prefix
\* ------------------------------------------------------------------------
RECURSIVE WhiteLen(_)
WhiteLen(s) ==
  IF s # <<>> /\ is_whitespace(Head(s)) THEN 1 + WhiteLen(Tail(s)) ELSE 0

trim_start(s) == DropFirst(s, WhiteLen(s))

RECURSIVE trim_end(_)
trim_end(s) ==
  IF s # <<>> /\ is_whitespace(s[Len(s)]) THEN trim_end(SubSeq(s, 1, Len(s) - 1)) ELSE s

trim(s) == trim_end(trim_start(s))

\* strip_prefix("#if").unwrap_or(whole)
strip_prefix_or(prefix, s, whole) ==
  IF tag(prefix, s).ok THEN DropFirst(s, Len(prefix)) ELSE whole


\* ------------------------------------------------------------------------
\* process_content
\* ------------------------------------------------------------------------
VARIABLES
  flags,          \* the flag set of the run (never changed)
  used0,          \* used_flags as process_content received it
  used_flags,     \* the caller's accumulator
  lines,          \* the lines the reader has delivered so far
  line_num,
  include_stack,
  output,
  result,         \* what process_content returned; tag "Running" before
  pc,             \* where main is: "loop", "content" (in process_content), "done"
  visited,        \* main's loop: the outcome of each file visited so far
  written,        \* the lines written to the destination of the last file
  files_processed,
  files_skipped,
  files_error,
  exit_code,      \* -1 while the process runs
  call,           \* a function applied on its own: its name and arguments
  ret,            \* ... and what it returned
  tree,           \* the files under the source directory, in walk order
  report          \* the unused-flag report main printed; NoReport before

\* process_content's variables, main's, and those of a lone function call.
content_vars == <<flags, used0, used_flags, lines, line_num, include_stack, output, result>>
main_vars == <<pc, visited, written, files_processed, files_skipped, files_error, exit_code>>
call_vars == <<call, ret>>
report_vars == <<tree, report>>
vars == <<content_vars, main_vars, call_vars, report_vars>>

NoCall == [fn |-> "none"]
NoReport == [scan |-> "none", known |-> {}, messages |-> {}]

Running == [tag |-> "Running", line_num |-> 0, condition |-> <<>>, output |-> <<>>]
Ok(out) == [tag |-> "Ok", line_num |-> 0, condition |-> <<>>, output |-> out]
Err(kind, n, condition) ==
  [tag |-> kind, line_num |-> n, condition |-> condition, output |-> <<>>]

\* *include_stack.back().unwrap_or(&false)
Top(stack) == IF stack = <<>> THEN FALSE ELSE stack[Len(stack)]

\* Mutant: the pushed value ignores the enclosing block.
PushValue_ignores_parent(current_block_active, is_condition_met) ==
  is_condition_met

\* The value pushed for a block open.
PushValue(current_block_active, is_condition_met) ==
  current_block_active /\ is_condition_met

\* Variant: the flags of a condition are recorded only when it is met.
on_if_records_when_met(st, ev) ==
  IF ev.met
  THEN [st EXCEPT !.used_flags = ev.used,
                  !.include_stack = Append(@, PushValue(Top(@), TRUE))]
  ELSE [st EXCEPT !.include_stack = Append(@, FALSE)]

\* Mutant: a block open in an inactive block is pushed without being
\* evaluated.
on_if_skips_inactive(st, ev) ==
  IF Top(st.include_stack)
  THEN [st EXCEPT !.used_flags = ev.used, !.include_stack = Append(@, ev.met)]
  ELSE [st EXCEPT !.include_stack = Append(@, FALSE)]

\* Mutant: a block open in an inactive block is evaluated but opens no
\* nesting level.
on_if_no_push_inactive(st, ev) ==
  IF Top(st.include_stack)
  THEN [st EXCEPT !.used_flags = ev.used, !.include_stack = Append(@, ev.met)]
  ELSE [st EXCEPT !.used_flags = ev.used]

\* LineParseResult::If(condition); ev is what condition.evaluate(flags,
\* used_flags) gives, which is called whatever the stack top is.
on_if(st, ev) ==
  [st EXCEPT !.used_flags = ev.used,
             !.include_stack = Append(@, PushValue(Top(@), ev.met))]

\* Mutant: the sentinel may be popped.
can_pop_sentinel(stack) == Len(stack) > 0

\* include_stack.len() > 1
can_pop(stack) == Len(stack) > 1

\* Variant: a close marker closes every open block at once.
on_endif_clears(st, n) ==
  IF can_pop(st.include_stack)
  THEN [st EXCEPT !.include_stack = <<TRUE>>]
  ELSE [st EXCEPT !.result = Err("MismatchedEndif", n, <<>>)]

\* LineParseResult::Endif
on_endif(st, n) ==
  IF can_pop(st.include_stack)
  THEN [st EXCEPT !.include_stack = SubSeq(@, 1, Len(@) - 1)]
  ELSE [st EXCEPT !.result = Err("MismatchedEndif", n, <<>>)]

\* Mutant: the retained line is trimmed.
retained_trimmed(content_str) == trim(content_str)

\* What a retained content line contributes to the output.
retained(content_str) == content_str

\* Mutant: a retained line is put in front of the output.
on_content_prepends(st, content_str) ==
  IF Top(st.include_stack)
  THEN [st EXCEPT !.output = <<content_str>> \o @]
  ELSE st

\* LineParseResult::Content(content_str)
on_content(st, content_str) ==
  IF Top(st.include_stack)
  THEN [st EXCEPT !.output = Append(@, retained(content_str))]
  ELSE st

\* Err(nom::Err::Error(e) | nom::Err::Failure(e))
on_parse_error(st, line, n) ==
  IF trim(line) # <<>>
  THEN [st EXCEPT !.result =
          Err("ConditionParse", n, trim(strip_prefix_or(HashIf, trim_start(line), line)))]
  ELSE IF Top(st.include_stack)
  THEN [st EXCEPT !.output = Append(@, line)]
  ELSE st

\* The body of the loop over reader.lines(), for one line that was read.
match_line(st, line, n, flagSet, p) ==
  CASE p.err = "none" /\ p.kind = "If" ->
         on_if(st, evaluate(p.cond, flagSet, st.used_flags))
    [] p.err = "none" /\ p.kind = "Endif" -> on_endif(st, n)
    [] p.err = "none" /\ p.kind = "Content" -> on_content(st, p.content)
    [] p.err \in {"Error", "Failure"} -> on_parse_error(st, line, n)
    [] OTHER -> [st EXCEPT !.result = Err("ConditionParse", n, line)]

process_line(st, line, n, flagSet) == match_line(st, line, n, flagSet, parse_line(line))

\* Mutant: the stack is not checked at the end of the input.
end_of_input_unchecked(stack, out) == Ok(out)

\* After the loop: include_stack.len() != 1
end_of_input(stack, out) ==
  IF Len(stack) # 1 THEN Err("MismatchedIf", 0, <<>>) ELSE Ok(out)

Init ==
  /\ flags \in SUBSET FlagNames
  /\ used0 \in EntryUsed
  /\ used_flags = used0
  /\ lines = <<>>
  /\ line_num = 0
  /\ include_stack = <<TRUE>>
  /\ output = <<>>
  /\ result = Running
  /\ pc = "content"
  /\ visited = <<>>
  /\ written = <<>>
  /\ files_processed = 0
  /\ files_skipped = 0
  /\ files_error = 0
  /\ exit_code = -1
  /\ call = NoCall
  /\ ret = NoCall
  /\ tree = <<>>
  /\ report = NoReport

\* The locals and the accumulator that one pass of the loop body works on.
Locals ==
  [output |-> output, include_stack |-> include_stack,
   used_flags |-> used_flags, result |-> result]

Becomes(st) ==
  /\ output' = st.output
  /\ include_stack' = st.include_stack
  /\ used_flags' = st.used_flags
  /\ result' = st.result

\* Variant: the loop goes on after an Err was produced.
ReadLine_after_error(line) ==
  /\ pc = "content"
  /\ result.tag \notin {"Ok", "Io", "MismatchedIf"}
  /\ line_num < MaxLines
  /\ lines' = Append(lines, line)
  /\ line_num' = line_num + 1
  /\ Becomes(process_line(Locals, line, line_num + 1, flags))
  /\ UNCHANGED <<flags, used0, main_vars, call_vars>>
  /\ UNCHANGED report_vars

\* The reader yields Some(Ok(line)).
ReadLine(line) ==
  /\ pc = "content"
  /\ result.tag = "Running"
  /\ line_num < MaxLines
  /\ lines' = Append(lines, line)
  /\ line_num' = line_num + 1
  /\ Becomes(process_line(Locals, line, line_num + 1, flags))
  /\ UNCHANGED <<flags, used0, main_vars, call_vars>>
  /\ UNCHANGED report_vars

\* The reader yields Some(Err(e)): the `?` returns ProcessorError::Io.
ReadError ==
  /\ pc = "content"
  /\ result.tag = "Running"
  /\ line_num < MaxLines
  /\ line_num' = line_num + 1
  /\ result' = Err("Io", 0, <<>>)
  /\ UNCHANGED <<flags, used0, used_flags, lines, include_stack, output>>
  /\ UNCHANGED <<main_vars, call_vars>>
  /\ UNCHANGED report_vars

\* The reader yields None.
EndOfInput ==
  /\ pc = "content"
  /\ result.tag = "Running"
  /\ result' = end_of_input(include_stack, output)
  /\ UNCHANGED <<flags, used0, used_flags, lines, line_num, include_stack, output>>
  /\ UNCHANGED <<main_vars, call_vars>>
  /\ UNCHANGED report_vars

Next ==
  \/ \E line \in Lines : ReadLine(line)
  \/ ReadError
  \/ EndOfInput

Spec == Init /\ [][Next]_vars

\* process_content has not started; main's loop has no file behind it.
ContentFresh ==
  /\ lines = <<>>
  /\ line_num = 0
  /\ include_stack = <<TRUE>>
  /\ output = <<>>
  /\ result = Running

MainFresh ==
  /\ visited = <<>>
  /\ written = <<>>
  /\ files_processed = 0
  /\ files_skipped = 0
  /\ files_error = 0
  /\ exit_code = -1

\* ------------------------------------------------------------------------
\* process_content over files of directive lines with surrounding text
\* ------------------------------------------------------------------------
ReadText(line) ==
  /\ line_num < MaxTextLines
  /\ ReadLine(line)

TextNext ==
  \/ \E line \in TextLines : ReadText(line)
  \/ ReadError
  \/ EndOfInput

SpecText == Init /\ [][TextNext]_vars

\* ------------------------------------------------------------------------
\* parse_condition_str (parser.rs) applied on its own
\* ------------------------------------------------------------------------
\* parser.rs 34-66 repeat main.rs 95-131 word for word.
parse_condition_type(input) == parse_condition(input)

\* Variant: what is left after the condition is not looked at.
finish_condition_str_lenient(r) ==
  IF r.ok THEN [ok |-> TRUE, cond |-> r.val, err |-> "none"]
  ELSE [ok |-> FALSE, cond |-> NoCondition, err |-> "structure"]

\* The match of parse_condition_str: Ok only when nothing remains.
finish_condition_str(r) ==
  IF r.ok /\ r.rest = <<>> THEN [ok |-> TRUE, cond |-> r.val, err |-> "none"]
  ELSE IF r.ok THEN [ok |-> FALSE, cond |-> NoCondition, err |-> "trailing"]
  ELSE [ok |-> FALSE, cond |-> NoCondition, err |-> "structure"]

\* terminated(parse_condition_type, multispace0)(input.trim())
parse_condition_str(input) ==
  finish_condition_str(after_multispace0(parse_condition_type(trim(input))))

RECURSIVE Concat(_)
Concat(ss) == IF ss = <<>> THEN <<>> ELSE Head(ss) \o Concat(Tail(ss))

FreePieces == {A, B, Sp, <<"\t">>, FormFeed, TagAnd, TagOr, <<"(">>, <<")">>}
BodyPieces == {A, B, Sp, FormFeed, <<")">>}

FreeTexts == { Concat(ps) : ps \in UNION { [1..n -> FreePieces] : n \in 0..MaxPieces } }
ListTexts ==
  { kw \o Concat(ps) :
      kw \in {TagAnd, TagOr},
      ps \in UNION { [1..n -> BodyPieces] : n \in 0..MaxBody } }

ConditionTexts == FreeTexts \cup ListTexts

ConditionStrInit ==
  /\ flags = {}
  /\ used0 = {}
  /\ used_flags = {}
  /\ ContentFresh
  /\ MainFresh
  /\ pc = "call"
  /\ call \in {[fn |-> "parse_condition_str", input |-> t] : t \in ConditionTexts}
  /\ ret = NoCall
  /\ tree = <<>>
  /\ report = NoReport

CallParseConditionStr ==
  /\ pc = "call"
  /\ call.fn = "parse_condition_str"
  /\ ret = NoCall
  /\ ret' = [fn |-> "parse_condition_str", res |-> parse_condition_str(call.input)]
  /\ UNCHANGED <<content_vars, main_vars, call>>
  /\ UNCHANGED report_vars

ConditionStrNext == CallParseConditionStr

SpecConditionStr == ConditionStrInit /\ [][ConditionStrNext]_vars

\* ------------------------------------------------------------------------
\* Condition::evaluate applied on its own
\* ------------------------------------------------------------------------
TermLists == UNION { [1..n -> FlagNames] : n \in 1..MaxTerms }

\* The values of enum Condition with up to MaxTerms terms.
Conditions ==
  {Single(f) : f \in FlagNames} \cup {And(t) : t \in TermLists} \cup {Or(t) : t \in TermLists}

EvaluateInit ==
  /\ flags \in SUBSET FlagNames
  /\ used0 \in SUBSET FlagNames
  /\ used_flags = used0
  /\ ContentFresh
  /\ MainFresh
  /\ pc = "call"
  /\ call \in {[fn |-> "evaluate", cond |-> c] : c \in Conditions}
  /\ ret = NoCall
  /\ tree = <<>>
  /\ report = NoReport

\* cond.evaluate(&flags, &mut used_flags)
CallEvaluate ==
  /\ pc = "call"
  /\ call.fn = "evaluate"
  /\ ret = NoCall
  /\ ret' = [fn |-> "evaluate", met |-> evaluate(call.cond, flags, used_flags).met]
  /\ used_flags' = evaluate(call.cond, flags, used_flags).used
  /\ UNCHANGED <<flags, used0, lines, line_num, include_stack, output, result>>
  /\ UNCHANGED <<main_vars, call>>
  /\ UNCHANGED report_vars

EvaluateNext == CallEvaluate

SpecEvaluate == EvaluateInit /\ [][EvaluateNext]_vars


\* ------------------------------------------------------------------------
\* main: the walk over the source files, process_file for each of them
\* ------------------------------------------------------------------------
\* Variant: a line counts as empty only when it has no character at all.
all_blank_untrimmed(processed_lines) ==
  \A i \in 1..Len(processed_lines) : processed_lines[i] = <<>>

\* processed_lines.iter().all(|line| line.trim().is_empty())
all_blank(processed_lines) ==
  \A i \in 1..Len(processed_lines) : trim(processed_lines[i]) = <<>>

\* Variant: one failed file is tolerated.
exit_status_many(errors) == IF errors > 1 THEN 1 ELSE 0

\* if files_error > 0 { std::process::exit(1) }, else Ok(()).
exit_status(errors) == IF errors > 0 THEN 1 ELSE 0

\* What became of one file: the arm of main's match it took, and whether
\* File::create made its destination.
Visited(status, created) == [status |-> status, created |-> created]

MainInit ==
  /\ flags \in SUBSET FlagNames
  /\ used0 = {}
  /\ used_flags = {}
  /\ ContentFresh
  /\ MainFresh
  /\ pc = "loop"
  /\ call = NoCall
  /\ ret = NoCall
  /\ tree = <<>>
  /\ report = NoReport

\* Variant: the stack of the file before is carried into the next one.
OpenFile_keeps_stack ==
  /\ pc = "loop"
  /\ Len(visited) < MaxFiles
  /\ pc' = "content"
  /\ used0' = used_flags
  /\ lines' = <<>>
  /\ line_num' = 0
  /\ output' = <<>>
  /\ result' = Running
  /\ written' = <<>>
  /\ UNCHANGED <<flags, used_flags, include_stack, visited, files_processed, files_skipped,
                 files_error, exit_code>>
  /\ UNCHANGED call_vars
  /\ UNCHANGED report_vars

\* Variant: every file starts from an empty accumulator.
OpenFile_resets_accumulator ==
  /\ pc = "loop"
  /\ Len(visited) < MaxFiles
  /\ pc' = "content"
  /\ used0' = {}
  /\ used_flags' = {}
  /\ lines' = <<>>
  /\ line_num' = 0
  /\ include_stack' = <<TRUE>>
  /\ output' = <<>>
  /\ result' = Running
  /\ written' = <<>>
  /\ UNCHANGED <<flags, visited, files_processed, files_skipped, files_error, exit_code>>
  /\ UNCHANGED call_vars
  /\ UNCHANGED report_vars

\* The walk yields a file, File::open succeeds and process_content is
\* entered with main's flags and used_flags.
OpenFile ==
  /\ pc = "loop"
  /\ Len(visited) < MaxFiles
  /\ pc' = "content"
  /\ used0' = used_flags
  /\ lines' = <<>>
  /\ line_num' = 0
  /\ include_stack' = <<TRUE>>
  /\ output' = <<>>
  /\ result' = Running
  /\ written' = <<>>
  /\ UNCHANGED <<flags, used_flags, visited, files_processed, files_skipped, files_error, exit_code>>
  /\ UNCHANGED call_vars
  /\ UNCHANGED report_vars

\* The walk yields a file and File::open fails: process_file returns Err.
OpenFails ==
  /\ pc = "loop"
  /\ Len(visited) < MaxFiles
  /\ used0' = used_flags
  /\ lines' = <<>>
  /\ line_num' = 0
  /\ include_stack' = <<TRUE>>
  /\ output' = <<>>
  /\ result' = Err("Open", 0, <<>>)
  /\ written' = <<>>
  /\ visited' = Append(visited, Visited("error", FALSE))
  /\ files_error' = files_error + 1
  /\ UNCHANGED <<flags, used_flags, pc, files_processed, files_skipped, exit_code>>
  /\ UNCHANGED call_vars
  /\ UNCHANGED report_vars

ReadFileLine(line) ==
  /\ line_num < MaxFileLines
  /\ ReadLine(line)

\* Variant: what was retained before the failure is written out.
FileFailed_writes_partial ==
  /\ pc = "content"
  /\ result.tag \notin {"Running", "Ok"}
  /\ pc' = "loop"
  /\ visited' = Append(visited, Visited("error", TRUE))
  /\ written' = output
  /\ files_error' = files_error + 1
  /\ UNCHANGED <<content_vars, files_processed, files_skipped, exit_code, call_vars>>
  /\ UNCHANGED report_vars

\* process_content returned Err: `?` leaves process_file, main counts an error.
FileFailed ==
  /\ pc = "content"
  /\ result.tag \notin {"Running", "Ok"}
  /\ pc' = "loop"
  /\ visited' = Append(visited, Visited("error", FALSE))
  /\ files_error' = files_error + 1
  /\ UNCHANGED <<content_vars, written, files_processed, files_skipped, exit_code, call_vars>>
  /\ UNCHANGED report_vars

\* Nothing but blank lines was retained: Ok("skipped").
FileSkipped ==
  /\ pc = "content"
  /\ result.tag = "Ok"
  /\ all_blank(result.output)
  /\ pc' = "loop"
  /\ visited' = Append(visited, Visited("skipped", FALSE))
  /\ files_skipped' = files_skipped + 1
  /\ UNCHANGED <<content_vars, written, files_processed, files_error, exit_code, call_vars>>
  /\ UNCHANGED report_vars

\* The destination is created and every retained line written: Ok("written").
FileWritten ==
  /\ pc = "content"
  /\ result.tag = "Ok"
  /\ ~all_blank(result.output)
  /\ pc' = "loop"
  /\ visited' = Append(visited, Visited("written", TRUE))
  /\ written' = result.output
  /\ files_processed' = files_processed + 1
  /\ UNCHANGED <<content_vars, files_skipped, files_error, exit_code, call_vars>>
  /\ UNCHANGED report_vars

\* create_dir_all or File::create fails (n = -1: nothing is created), or
\* writeln!/flush fails after n lines reached the file.
FileWriteFails(n) ==
  /\ pc = "content"
  /\ result.tag = "Ok"
  /\ ~all_blank(result.output)
  /\ n <= Len(result.output)
  /\ pc' = "loop"
  /\ visited' = Append(visited, Visited("error", n >= 0))
  /\ written' = SubSeq(result.output, 1, n)
  /\ files_error' = files_error + 1
  /\ UNCHANGED <<content_vars, files_processed, files_skipped, exit_code, call_vars>>
  /\ UNCHANGED report_vars

\* The walk is over: the reports, then the exit status.
EndWalk ==
  /\ pc = "loop"
  /\ pc' = "done"
  /\ exit_code' = exit_status(files_error)
  /\ UNCHANGED <<content_vars, visited, written, files_processed, files_skipped, files_error>>
  /\ UNCHANGED call_vars
  /\ UNCHANGED report_vars

MainNext ==
  \/ OpenFile
  \/ OpenFails
  \/ \E line \in MainLines : ReadFileLine(line)
  \/ ReadError
  \/ EndOfInput
  \/ FileFailed
  \/ FileSkipped
  \/ FileWritten
  \/ \E n \in -1..MaxFileLines : FileWriteFails(n)
  \/ EndWalk

SpecMain == MainInit /\ [][MainNext]_vars

\* ------------------------------------------------------------------------
\* Unused flags: scan_all_conditions, find_closest_match and main's report
\* ------------------------------------------------------------------------
\* Condition::mentioned_flags
mentioned_flags(cond) == Range(cond.terms)

\* if let Ok((_, LineParseResult::If(condition))) = parse_line(&line)
line_flags(p) ==
  IF p.err = "none" /\ p.kind = "If" THEN mentioned_flags(p.cond) ELSE {}

\* scan_all_conditions without an I/O error: Ok(seen_flags).
scan_all_conditions(t) ==
  UNION { UNION { line_flags(parse_line(t[i][j])) : j \in 1..Len(t[i]) } : i \in 1..Len(t) }

Min2(a, b) == IF a <= b THEN a ELSE b

\* strsim::levenshtein: insertions, deletions and substitutions of characters.
RECURSIVE levenshtein(_, _)
levenshtein(a, b) ==
  IF a = <<>> THEN Len(b)
  ELSE IF b = <<>> THEN Len(a)
  ELSE IF Head(a) = Head(b) THEN levenshtein(Tail(a), Tail(b))
  ELSE 1 + Min2(levenshtein(Tail(a), Tail(b)),
                Min2(levenshtein(Tail(a), b), levenshtein(a, Tail(b))))

None == [some |-> FALSE, val |-> <<>>]
Some(v) == [some |-> TRUE, val |-> v]

\* Variant: two edits are always tolerated.
threshold_two(flag) == 2

\* std::cmp::min(2, flag.len() / 2 + 1); flag names are ASCII, one byte a
\* character.
threshold(flag) == Min2(2, (Len(flag) \div 2) + 1)

\* .filter(|&&candidate| candidate != flag)
not_itself(flag, candidates) == SelectSeq(candidates, LAMBDA c : c # flag)

\* .min_by_key(|&&candidate| levenshtein(flag, candidate)): the first of the
\* candidates at the least distance.
min_by_key(flag, candidates) ==
  IF candidates = <<>> THEN None
  ELSE Some(candidates[
         CHOOSE i \in 1..Len(candidates) :
           /\ \A j \in 1..Len(candidates) :
                levenshtein(flag, candidates[i]) <= levenshtein(flag, candidates[j])
           /\ \A j \in 1..(i - 1) :
                levenshtein(flag, candidates[j]) > levenshtein(flag, candidates[i])])

\* .filter(|&&best_match| distance <= threshold)
within_threshold(flag, best) ==
  IF best.some /\ levenshtein(flag, best.val) <= threshold(flag) THEN best ELSE None

find_closest_match(flag, candidates) ==
  within_threshold(flag, min_by_key(flag, not_itself(flag, candidates)))

\* One line of the report.
Message(flag, note, suggestion) == [flag |-> flag, note |-> note, suggestion |-> suggestion]

\* The message for one unused flag when the scan succeeded (main.rs 479-498).
message_with_scan(unused_flag, all_conditions_set, all_conditions_vec) ==
  IF unused_flag \notin all_conditions_set
  THEN Message(unused_flag, "in no condition",
               find_closest_match(unused_flag, all_conditions_vec))
  ELSE Message(unused_flag, "never true", None)

\* Variant: the flags that were requested and used.
unused_flags_swapped(requested, used) == requested \cap used

\* flags.difference(&used_flags)
unused_flags(requested, used) == requested \ used

\* ------------------------------------------------------------------------
\* find_closest_match applied on its own
\* ------------------------------------------------------------------------
\* Flag names of one to three characters, at distances 1 to 3 of each other.
Words ==
  { <<"a">>, <<"b">>, <<"a", "b">>, <<"b", "c">>, <<"a", "b", "c">>, <<"c", "d", "e">> }

ClosestInit ==
  /\ flags = {}
  /\ used0 = {}
  /\ used_flags = {}
  /\ ContentFresh
  /\ MainFresh
  /\ pc = "call"
  /\ call \in { [fn |-> "find_closest_match", flag |-> f, candidates |-> cs] :
                  f \in Words, cs \in UNION { [1..n -> Words] : n \in 0..MaxCandidates } }
  /\ ret = NoCall
  /\ tree = <<>>
  /\ report = NoReport

CallFindClosestMatch ==
  /\ pc = "call"
  /\ call.fn = "find_closest_match"
  /\ ret = NoCall
  /\ ret' = [fn |-> "find_closest_match",
             res |-> find_closest_match(call.flag, call.candidates)]
  /\ UNCHANGED <<content_vars, main_vars, call, report_vars>>

ClosestNext == CallFindClosestMatch

SpecClosest == ClosestInit /\ [][ClosestNext]_vars

\* ------------------------------------------------------------------------
\* main over a given source tree: the walk, then the unused-flag report
\* ------------------------------------------------------------------------
\* The files of a tree: flat cut after each of the positions ends.
TreeOf(flat, ends) ==
  [i \in 1..Len(ends) |-> SubSeq(flat, (IF i = 1 THEN 0 ELSE ends[i - 1]) + 1, ends[i])]

Cuts(n) ==
  { e \in UNION { [1..f -> 0..n] : f \in 0..MaxFiles } :
      /\ \A i \in 1..(Len(e) - 1) : e[i] <= e[i + 1]
      /\ IF e = <<>> THEN n = 0 ELSE e[Len(e)] = n }

\* The trees of up to MaxFiles files and MaxTreeLines lines in all.
Trees ==
  UNION { { TreeOf(flat, ends) : ends \in Cuts(Len(flat)) } :
            flat \in UNION { [1..n -> TreeLines] : n \in 0..MaxTreeLines } }

\* The orders in which a HashSet of flag names may be iterated.
Orderings ==
  { o \in UNION { [1..n -> FlagNames] : n \in 0..Cardinality(FlagNames) } :
      \A i, j \in 1..Len(o) : i # j => o[i] # o[j] }

ReportInit ==
  /\ flags \in SUBSET FlagNames
  /\ used0 = {}
  /\ used_flags = {}
  /\ ContentFresh
  /\ MainFresh
  /\ pc = "loop"
  /\ call = NoCall
  /\ ret = NoCall
  /\ tree \in Trees
  /\ report = NoReport

\* The file main is at, once process_file has opened it.
CurrentFile == tree[Len(visited) + 1]

WalkOpenFile ==
  /\ Len(visited) < Len(tree)
  /\ OpenFile

WalkOpenFails ==
  /\ Len(visited) < Len(tree)
  /\ OpenFails

WalkReadLine ==
  /\ pc = "content"
  /\ line_num < Len(CurrentFile)
  /\ ReadLine(CurrentFile[line_num + 1])

WalkReadError ==
  /\ pc = "content"
  /\ line_num < Len(CurrentFile)
  /\ ReadError

WalkEndOfInput ==
  /\ pc = "content"
  /\ line_num = Len(CurrentFile)
  /\ EndOfInput

\* The walk is over and no requested flag is unused: nothing is printed.
ReportNothing ==
  /\ pc = "loop"
  /\ Len(visited) = Len(tree)
  /\ report = NoReport
  /\ unused_flags(flags, used_flags) = {}
  /\ report' = [scan |-> "skipped", known |-> {}, messages |-> {}]
  /\ UNCHANGED <<content_vars, main_vars, call_vars, tree>>

\* scan_all_conditions returned Ok: one message for each unused flag, the
\* candidates in the order the set happens to be iterated in.
ReportWithScan(all_conditions_vec) ==
  /\ pc = "loop"
  /\ Len(visited) = Len(tree)
  /\ report = NoReport
  /\ unused_flags(flags, used_flags) # {}
  /\ Range(all_conditions_vec) = scan_all_conditions(tree)
  /\ report' =
       [ scan |-> "ok",
         known |-> scan_all_conditions(tree),
         messages |->
           { message_with_scan(f, scan_all_conditions(tree), all_conditions_vec) :
               f \in unused_flags(flags, used_flags) } ]
  /\ UNCHANGED <<content_vars, main_vars, call_vars, tree>>

\* scan_all_conditions returned Err (a file could not be opened or read):
\* a warning, and the bare list of unused flags.
ReportScanFailed ==
  /\ pc = "loop"
  /\ Len(visited) = Len(tree)
  /\ report = NoReport
  /\ unused_flags(flags, used_flags) # {}
  /\ tree # <<>>
  /\ report' =
       [ scan |-> "failed",
         known |-> {},
         messages |-> { Message(f, "unused", None) : f \in unused_flags(flags, used_flags) } ]
  /\ UNCHANGED <<content_vars, main_vars, call_vars, tree>>

\* After the report: the exit status.
ReportedEndWalk ==
  /\ report # NoReport
  /\ EndWalk

ReportNext ==
  \/ WalkOpenFile
  \/ WalkOpenFails
  \/ WalkReadLine
  \/ WalkReadError
  \/ WalkEndOfInput
  \/ FileFailed
  \/ FileSkipped
  \/ FileWritten
  \/ \E n \in -1..MaxFileLines : FileWriteFails(n)
  \/ ReportNothing
  \/ \E all_conditions_vec \in Orderings : ReportWithScan(all_conditions_vec)
  \/ ReportScanFailed
  \/ ReportedEndWalk

SpecReport == ReportInit /\ [][ReportNext]_vars

\* ------------------------------------------------------------------------
\* Reference notions over the lines read so far, used to state properties
\* ------------------------------------------------------------------------
\* The classification of each line a file may contain.
Parsed == [l \in Lines \cup TextLines |-> parse_line(l)]
Kind(l) == Parsed[l].kind

\* Numbers of block opens and close markers among s[from..to].
Ifs(s, from, to) == Cardinality({k \in from..to : Kind(s[k]) = "If"})
Ends(s, from, to) == Cardinality({k \in from..to : Kind(s[k]) = "Endif"})

\* The block opens that are open when line n of s is reached: opened
\* earlier, and not closed by any close marker before line n.
OpenAt(s, n) ==
  { j \in 1..(n - 1) :
      /\ Kind(s[j]) = "If"
      /\ \A k \in (j + 1)..(n - 1) : Ends(s, j + 1, k) <= Ifs(s, j + 1, k) }

\* Truth of a condition under a flag set.
Holds(cond, flagSet) ==
  CASE cond.type = "Single" -> cond.terms[1] \in flagSet
    [] cond.type = "And" -> Range(cond.terms) \subseteq flagSet
    [] cond.type = "Or" -> Range(cond.terms) \cap flagSet # {}

\* Every block open at line n had a true condition.
ActiveAt(s, n, flagSet) ==
  \A j \in OpenAt(s, n) : Holds(Parsed[s[j]].cond, flagSet)

\* The content lines among s[1..n] that lie in no false block, in order.
RECURSIVE RetainedUpTo(_, _, _)
RetainedUpTo(s, n, flagSet) ==
  IF n = 0 THEN <<>>
  ELSE IF Kind(s[n]) = "Content" /\ ActiveAt(s, n, flagSet)
  THEN Append(RetainedUpTo(s, n - 1, flagSet), s[n])
  ELSE RetainedUpTo(s, n - 1, flagSet)

\* ------------------------------------------------------------------------
\* C1
\* ------------------------------------------------------------------------
\* C1: a plain content line is retained if and only if the stack top is
\* true when it is reached, which is the case if and only if every block
\* open that is open at that line had a condition that evaluated true; so
\* the output is exactly the content lines that lie in no false block, and
\* the stack top says whether the next line lies in none.
Thm_C1 ==
  /\ output = RetainedUpTo(lines, Len(lines), flags)
  /\ result.tag = "Running" =>
       Top(include_stack) = ActiveAt(lines, Len(lines) + 1, flags)

\* A content line in a true block nested in a false block was discarded,
\* after a content line at depth 0 was retained.
Witness_C1 ==
  /\ lines = <<LineContent, LineIfA, LineIfB, LineContent>>
  /\ flags = {B}
  /\ output = <<LineContent>>


\* ------------------------------------------------------------------------
\* C2
\* ------------------------------------------------------------------------
Last(s) == s[Len(s)]

\* C2: a close marker reached while the stack holds only the sentinel makes
\* process_content fail with MismatchedEndif carrying the 1-based number of
\* that line; reached while a block is open it pops exactly one level and
\* raises no error.
Thm_C2 ==
  [][ (lines' # lines /\ Kind(Last(lines')) = "Endif") =>
        IF Len(include_stack) = 1
        THEN /\ result'.tag = "MismatchedEndif"
             /\ result'.line_num = Len(lines')
             /\ include_stack' = include_stack
        ELSE /\ result'.tag = "Running"
             /\ include_stack' = SubSeq(include_stack, 1, Len(include_stack) - 1)
    ]_vars

\* One block was opened and closed, then a second close marker failed at
\* line 3.
Witness_C2 ==
  /\ lines = <<LineIfA, LineEndif, LineEndif>>
  /\ result.tag = "MismatchedEndif"
  /\ result.line_num = 3

\* ------------------------------------------------------------------------
\* C3
\* ------------------------------------------------------------------------
\* C3: at end of input, with no earlier error, process_content fails with
\* MismatchedIf if and only if the stack length is not 1, that is if and
\* only if some block open was never closed; otherwise it returns the
\* retained lines.
Thm_C3 ==
  [][ (result.tag = "Running" /\ result' # result /\ line_num' = line_num) =>
        /\ (result'.tag = "MismatchedIf") <=> (Len(include_stack) # 1)
        /\ (result'.tag = "MismatchedIf") <=> (OpenAt(lines, Len(lines) + 1) # {})
        /\ result'.tag # "MismatchedIf" =>
             (result'.tag = "Ok" /\ result'.output = output)
    ]_vars

\* The input ended inside a block that was never closed.
Witness_C3 ==
  /\ lines = <<LineIfA, LineContent>>
  /\ result.tag = "MismatchedIf"

\* ------------------------------------------------------------------------
\* C4
\* ------------------------------------------------------------------------
\* A block-open line whose condition text does not parse: the "#if" keyword
\* and its whitespace start the line, and no condition form follows.
MalformedOpen(l) == if_marker(l).ok /\ ~parse_condition(if_marker(l).rest).ok

\* C4: a block-open line with a malformed condition makes the classifier
\* return an error, and process_content fail with ConditionParse carrying
\* that line's 1-based number and the condition text.
Claim_C4 ==
  (lines # <<>> /\ MalformedOpen(Last(lines))) =>
     /\ parse_line(Last(lines)).err # "none"
     /\ result.tag = "ConditionParse"
     /\ result.line_num = Len(lines)
     /\ result.condition = trim(if_marker(Last(lines)).rest)

\* ------------------------------------------------------------------------
\* C5
\* ------------------------------------------------------------------------
\* Positions p at which "#if" starts in l after some non-whitespace text,
\* followed by whitespace and a condition.
InlineMarkers(l) ==
  { p \in 2..Len(l) :
      /\ tag(HashIf, DropFirst(l, p - 1)).ok
      /\ trim(SubSeq(l, 1, p - 1)) # <<>>
      /\ multispace1(DropFirst(l, p + 2)).ok
      /\ parse_condition(multispace1(DropFirst(l, p + 2)).rest).ok }

IsInline(l) == InlineMarkers(l) # {}
InlineAt(l) == CHOOSE p \in InlineMarkers(l) : \A q \in InlineMarkers(l) : p <= q
InlineFragment(l) == trim_end(SubSeq(l, 1, InlineAt(l) - 1))
InlineCondition(l) == parse_condition(multispace1(DropFirst(l, InlineAt(l) + 2)).rest).val

\* C5: an inline directive line whose condition is true contributes the
\* fragment before the marker, trimmed of trailing whitespace, as one output
\* line, and the flags of its condition are recorded in used_flags.
Claim_C5 ==
  (/\ Len(lines) = 1
   /\ IsInline(lines[1])
   /\ Holds(InlineCondition(lines[1]), flags)) =>
     /\ output = <<InlineFragment(lines[1])>>
     /\ Range(InlineCondition(lines[1]).terms) \subseteq used_flags

FlagsOfActiveOpens(s, flagSet) ==
  UNION { Range(Parsed[s[i]].cond.terms) :
            i \in {j \in 1..Len(s) : Kind(s[j]) = "If" /\ ActiveAt(s, j, flagSet)} }

\* C7: a block open nested in a block whose condition is false is not
\* evaluated and its flags are not recorded: used_flags holds the flags of
\* the block opens reached in an active block and no others.
Claim_C7 ==
  used_flags = used0 \cup FlagsOfActiveOpens(lines, flags)

\* ------------------------------------------------------------------------
\* C8
\* ------------------------------------------------------------------------
\* Every close marker of s has an unmatched earlier block open.
WellNested(s) == \A k \in 1..Len(s) : Ends(s, 1, k) <= Ifs(s, 1, k)
\* ... and every block open is closed later.
Balanced(s) == WellNested(s) /\ Ends(s, 1, Len(s)) = Ifs(s, 1, Len(s))

Thm_C9 ==
  (\A i \in 1..Len(lines) : Kind(lines[i]) = "Content") =>
     /\ output = lines
     /\ used_flags = used0
     /\ result.tag \in {"Running", "Ok", "Io"}
     /\ result.tag = "Ok" => result.output = lines

\* A file of two directive-free lines was returned, with used_flags as on
\* entry.
Witness_C9 ==
  /\ lines = <<LineContent, LineBlank>>
  /\ flags = {A}
  /\ used0 = {B}
  /\ result.tag = "Ok"
  /\ result.output = <<LineContent, LineBlank>>

\* ------------------------------------------------------------------------
\* C10
\* ------------------------------------------------------------------------
\* a is an order-preserving subsequence of b.
RECURSIVE IsSubseq(_, _)
IsSubseq(a, b) ==
  IF a = <<>> THEN TRUE
  ELSE IF b = <<>> THEN FALSE
  ELSE IF Head(a) = Head(b) THEN IsSubseq(Tail(a), Tail(b))
  ELSE IsSubseq(a, Tail(b))

IsContentLine(l) == Kind(l) = "Content"

Thm_C11 ==
  ret.fn = "evaluate" => (ret.met <=> Holds(call.cond, flags))

\* An Or that is true through its second term only.
Witness_C11 ==
  /\ ret.fn = "evaluate"
  /\ call.cond = Or(<<A, B>>)
  /\ flags = {B}
  /\ ret.met

\* ------------------------------------------------------------------------
\* C12: Condition::evaluate inserts every flag name listed in the condition
\* into used_flags whether the condition is true or false, adds no other
\* name, removes none, and leaves the flag set unchanged.
\* ------------------------------------------------------------------------
Thm_C12 ==
  [][ (call.fn = "evaluate" /\ ret = NoCall /\ ret' # NoCall)
        => /\ used_flags' = used_flags \cup Range(call.cond.terms)
           /\ flags' = flags ]_vars

\* An And decided false by its first term; the second is recorded all the same.
Witness_C12 ==
  /\ ret.fn = "evaluate"
  /\ call.cond = And(<<A, B>>)
  /\ flags = {}
  /\ used0 = {}
  /\ used_flags = {A, B}
  /\ ~ret.met

\* ------------------------------------------------------------------------
\* C13
\* ------------------------------------------------------------------------
\* A block-open line with characters left over after a recognized condition.
LeftoverOpen(l) == parse_if_directive(l).ok /\ parse_if_directive(l).rest # <<>>

\* C13: processing a block-open line whose condition text has leftover
\* characters after a recognized condition form fails with ConditionParse at
\* that line; the line is not accepted as a block open on the leading
\* condition alone.
Claim_C13 ==
  (lines # <<>> /\ Len(lines) = line_num /\ LeftoverOpen(Last(lines))) =>
     /\ result.tag = "ConditionParse"
     /\ result.line_num = Len(lines)

\* ------------------------------------------------------------------------
\* C14
\* ------------------------------------------------------------------------
\* The grammar of a condition text, read off the text itself: seps are the
\* characters that separate flag tokens.
White == {" ", "\t", "\r", "\n", "\f"}
Multispace == {" ", "\t", "\r", "\n"}
IsTokenChar(c) == c \notin White \cup {"(", ")"}

\* The maximal runs of non-separator characters of s, in order.
RECURSIVE SplitAcc(_, _, _, _)
SplitAcc(s, seps, cur, acc) ==
  IF s = <<>> THEN (IF cur = <<>> THEN acc ELSE Append(acc, cur))
  ELSE IF Head(s) \in seps
       THEN SplitAcc(Tail(s), seps, <<>>, IF cur = <<>> THEN acc ELSE Append(acc, cur))
       ELSE SplitAcc(Tail(s), seps, Append(cur, Head(s)), acc)

Strip(s, n, m) == SubSeq(s, n + 1, Len(s) - m)

\* s without the characters of White at both ends.
RECURSIVE Trimmed(_)
Trimmed(s) ==
  IF s # <<>> /\ s[1] \in White THEN Trimmed(Strip(s, 1, 0))
  ELSE IF s # <<>> /\ s[Len(s)] \in White THEN Trimmed(Strip(s, 0, 1))
  ELSE s

IsFlagToken(u) == u # <<>> /\ \A i \in 1..Len(u) : IsTokenChar(u[i])

\* u is kw, a separator, one or more separated flag tokens, and ")".
IsListForm(kw, u, seps) ==
  /\ Len(u) >= Len(kw) + 3
  /\ SubSeq(u, 1, Len(kw)) = kw
  /\ u[Len(u)] = ")"
  /\ u[Len(kw) + 1] \in seps
  /\ \A i \in (Len(kw) + 1)..(Len(u) - 1) : u[i] \in seps \/ IsTokenChar(u[i])
  /\ \E i \in (Len(kw) + 1)..(Len(u) - 1) : u[i] \notin seps

Accepted(cond) == [ok |-> TRUE, cond |-> cond]
Rejected == [ok |-> FALSE, cond |-> NoCondition]

GrammarOf(u, seps) ==
  IF IsFlagToken(u) THEN Accepted(Single(u))
  ELSE IF IsListForm(TagAnd, u, seps)
       THEN Accepted(And(SplitAcc(Strip(u, Len(TagAnd), 1), seps, <<>>, <<>>)))
  ELSE IF IsListForm(TagOr, u, seps)
       THEN Accepted(Or(SplitAcc(Strip(u, Len(TagOr), 1), seps, <<>>, <<>>)))
  ELSE Rejected

Agrees(res, expected) == res.ok = expected.ok /\ res.cond = expected.cond

\* C14 as stated: parse_condition_str accepts a text iff, trimmed, it is one
\* flag token or "(and"/"(or", whitespace, one or more whitespace-separated
\* flag tokens and ")", and returns Single/And/Or with the flags in source
\* order; "whitespace" being any white space, as trimming understands it.
Claim_C14 ==
  ret.fn = "parse_condition_str" =>
    Agrees(ret.res, GrammarOf(Trimmed(call.input), White))

\* C14, amended: the same, the separators inside the parentheses being
\* spaces, tabs, carriage returns and line feeds only; other white space
\* (trimmed at the ends) makes the text malformed there.  "()", "(and)",
\* "(or)" and texts with trailing characters are rejected.
Thm_C14 ==
  ret.fn = "parse_condition_str" =>
    /\ Agrees(ret.res, GrammarOf(Trimmed(call.input), Multispace))
    /\ call.input \in {<<"(", ")">>, TagAnd \o <<")">>, TagOr \o <<")">>} => ~ret.res.ok
    /\ call.input \in {A \o Sp \o B, TagAnd \o Sp \o A \o <<")">> \o Sp \o B} =>
         ret.res.err = "trailing"

\* "(and a b )" is accepted as And [a, b].
Witness_C14 ==
  /\ ret.fn = "parse_condition_str"
  /\ call.input = TagAnd \o Sp \o A \o Sp \o B \o Sp \o <<")">>
  /\ ret.res.ok
  /\ ret.res.cond = And(<<A, B>>)

\* ------------------------------------------------------------------------
\* C15
\* ------------------------------------------------------------------------
\* The line without its leading characters of ws.
RECURSIVE StripLeading(_, _)
StripLeading(l, ws) ==
  IF l # <<>> /\ l[1] \in ws THEN StripLeading(Strip(l, 1, 0), ws) ELSE l

BeginsWithEndif(l, ws) ==
  /\ Len(StripLeading(l, ws)) >= Len(HashEndif)
  /\ SubSeq(StripLeading(l, ws), 1, Len(HashEndif)) = HashEndif

\* Reading a line that begins with "#endif" after leading characters of ws
\* does what a close marker does: one level is popped (or, with no block
\* open, MismatchedEndif is returned for this line), exactly as for a bare
\* "#endif", and nothing is emitted or recorded.
CloseMarkerStep(ws) ==
  (Len(lines') = Len(lines) + 1 /\ BeginsWithEndif(Last(lines'), ws)) =>
    /\ Parsed[Last(lines')].kind = "Endif"
    /\ output' = output
    /\ used_flags' = used_flags
    /\ IF Len(include_stack) > 1
       THEN /\ include_stack' = SubSeq(include_stack, 1, Len(include_stack) - 1)
            /\ result'.tag = "Running"
       ELSE /\ include_stack' = include_stack
            /\ result'.tag = "MismatchedEndif"
            /\ result'.line_num = Len(lines')
    /\ [output |-> output', include_stack |-> include_stack',
        used_flags |-> used_flags', result |-> result']
         = process_line(Locals, LineEndif, Len(lines'), flags)

ReadsAsOpen(l) ==
  /\ Len(StripLeading(l, White)) > Len(HashIf)
  /\ SubSeq(StripLeading(l, White), 1, Len(HashIf)) = HashIf
  /\ StripLeading(l, White)[Len(HashIf) + 1] \in White

ReadsAsClose(l) == BeginsWithEndif(l, White)

OnlyContentAndInline(s) ==
  \A i \in 1..Len(s) : ~ReadsAsOpen(s[i]) /\ ~ReadsAsClose(s[i])

\* C16: a file that contains only plain content and inline directives (no
\* block-open line, no close marker) keeps the stack at depth 1 at every
\* step and never produces MismatchedEndif or MismatchedIf.
Thm_C16 ==
  OnlyContentAndInline(lines) =>
    /\ include_stack = <<TRUE>>
    /\ result.tag \notin {"MismatchedEndif", "MismatchedIf"}

\* A file of two inline directives around a content line, read to its end.
Witness_C16 ==
  /\ lines = <<LineInline, LineContent, LineInline>>
  /\ include_stack = <<TRUE>>
  /\ result.tag = "Ok"

\* ------------------------------------------------------------------------
\* C17: the used-flags accumulator grows monotonically over a whole run: no
\* line-processing step and no file, successful or failed, removes a name
\* from it; only a step that reads a block-open line adds names (those of
\* its condition); content lines and close markers leave it unchanged.
\* ------------------------------------------------------------------------
Thm_C17 ==
  [][ /\ used_flags \subseteq used_flags'
      /\ used_flags' # used_flags =>
           /\ Len(lines') = Len(lines) + 1
           /\ Kind(Last(lines')) = "If"
           /\ used_flags' = used_flags \cup Range(Parsed[Last(lines')].cond.terms)
      /\ (Len(lines') = Len(lines) + 1 /\ Kind(Last(lines')) \in {"Content", "Endif"}) =>
           used_flags' = used_flags ]_vars

\* The second file fails on its first line, a close marker, with the name
\* the first (failed or not) file recorded still in the accumulator.
Witness_C17 ==
  /\ Len(visited) = 1
  /\ pc = "content"
  /\ used0 = {A}
  /\ used_flags = {A}
  /\ lines = <<LineEndif>>
  /\ result.tag = "MismatchedEndif"

\* ------------------------------------------------------------------------
\* C18: no partial output: when the processing of a file fails
\* (MismatchedEndif, MismatchedIf, ConditionParse or a read error),
\* process_content returns no retained line at all, and process_file
\* neither creates nor writes the destination of that file.
\* ------------------------------------------------------------------------
ContentFailure == {"MismatchedEndif", "MismatchedIf", "ConditionParse", "Io"}

Thm_C18 ==
  result.tag \in ContentFailure =>
    /\ result.output = <<>>
    /\ written = <<>>
    /\ pc = "loop" =>
         /\ Last(visited).status = "error"
         /\ ~Last(visited).created

\* A file that fails at its end with a block left open, after a line had
\* been retained.
Witness_C18 ==
  /\ pc = "loop"
  /\ lines = <<LineContent, LineIfA>>
  /\ output = <<LineContent>>
  /\ result.tag = "MismatchedIf"
  /\ written = <<>>
  /\ ~Last(visited).created

\* ------------------------------------------------------------------------
\* C19: after the driver has visited every file, the process exits non-zero
\* if and only if at least one file failed, however many were written or
\* skipped; each failure increments the error counter exactly once.
\* ------------------------------------------------------------------------
Failed == {i \in 1..Len(visited) : visited[i].status = "error"}

Thm_C19 ==
  /\ files_error = Cardinality(Failed)
  /\ pc = "done" => (exit_code # 0 <=> Failed # {})
  /\ pc # "done" => exit_code = -1

\* One file written, one failed: the exit status is 1.
Witness_C19 ==
  /\ pc = "done"
  /\ files_processed = 1
  /\ files_error = 1
  /\ exit_code = 1

\* ------------------------------------------------------------------------
\* C20: a successfully processed file is reported "skipped" if and only if
\* its retained output is empty or made of blank / whitespace-only lines,
\* and "written" otherwise; a skipped file has no destination created or
\* written.
\* ------------------------------------------------------------------------
OnlyBlankLines(out) ==
  \A i \in 1..Len(out) : \A j \in 1..Len(out[i]) : out[i][j] \in White

Thm_C20 ==
  (pc = "loop" /\ visited # <<>> /\ Last(visited).status # "error") =>
    /\ result.tag = "Ok"
    /\ Last(visited).status = "skipped" <=> OnlyBlankLines(result.output)
    /\ Last(visited).status = "written" <=> ~OnlyBlankLines(result.output)
    /\ Last(visited).status = "skipped" => (~Last(visited).created /\ written = <<>>)
    /\ Last(visited).status = "written" => (Last(visited).created /\ written = result.output)
    /\ files_skipped = Cardinality({i \in 1..Len(visited) : visited[i].status = "skipped"})
    /\ files_processed = Cardinality({i \in 1..Len(visited) : visited[i].status = "written"})

\* A file whose retained output is one blank (but not empty) line is skipped.
Witness_C20 ==
  /\ pc = "loop"
  /\ visited # <<>>
  /\ Last(visited).status = "skipped"
  /\ result.tag = "Ok"
  /\ result.output = <<LineBlank>>
  /\ written = <<>>

\* ------------------------------------------------------------------------
\* C21
\* ------------------------------------------------------------------------
\* The flags the report has a message for.
Reported(r) == {m.flag : m \in r.messages}

\* C21: the flags reported as unused are exactly requested minus used, the
\* accumulator being the one left by the walk over all the files, which
\* holds the flags of the conditions that were evaluated and nothing else:
\* it starts empty and grows only by the terms of a block-open line read.
Thm_C21 ==
  [][ /\ (report = NoReport /\ report' # NoReport) =>
           /\ Len(visited) = Len(tree)
           /\ Reported(report') = flags \ used_flags
           /\ Cardinality(report'.messages) = Cardinality(flags \ used_flags)
      /\ used_flags' # used_flags =>
           /\ report = NoReport
           /\ Len(lines') = Len(lines) + 1
           /\ Kind(Last(lines')) = "If"
           /\ used_flags' = used_flags \cup mentioned_flags(Parsed[Last(lines')].cond) ]_vars

\* Both flags requested, "#if a" evaluated somewhere: b alone is reported.
Witness_C21 ==
  /\ pc = "done"
  /\ flags = {A, B}
  /\ used_flags = {A}
  /\ Reported(report) = {B}

\* ------------------------------------------------------------------------
\* C22
\* ------------------------------------------------------------------------
\* The candidates other than the flag, and the least distance among them.
OtherCandidates(flag, candidates) == {c \in Range(candidates) : c # flag}
LeastDistance(flag, cs) ==
  CHOOSE d \in 0..8 :
    /\ \E c \in cs : levenshtein(flag, c) = d
    /\ \A c \in cs : levenshtein(flag, c) >= d

HasCloseCandidate(flag, cs) ==
  \E c \in cs \ {flag} :
    /\ levenshtein(flag, c) <= 2
    /\ levenshtein(flag, c) <= (Len(flag) \div 2) + 1

\* C23: for each unused flag a suggestion is attempted: whenever some
\* candidate other than the flag itself, drawn from all known flags when the
\* tree scan succeeded, lies within the distance threshold, a suggestion is
\* offered for that unused flag.
Claim_C23 ==
  report.scan = "ok" =>
    \A m \in report.messages :
      HasCloseCandidate(m.flag, report.known) => m.suggestion.some

\* ------------------------------------------------------------------------
\* C24: when the tree-wide scan fails the run is not aborted: every unused
\* flag is still reported, and suggestions fall back to candidates drawn
\* from the used-flag set.
\* ------------------------------------------------------------------------
Claim_C24 ==
  report.scan = "failed" =>
    /\ Reported(report) = flags \ used_flags
    /\ \A m \in report.messages :
         HasCloseCandidate(m.flag, used_flags) =>
           (m.suggestion.some /\ m.suggestion.val \in used_flags)

\* ------------------------------------------------------------------------
\* C25
\* ------------------------------------------------------------------------
\* The close markers that were accepted: all those read, but the one that
\* made process_content fail.
AcceptedEnds ==
  Ends(lines, 1, Len(lines)) - (IF result.tag = "MismatchedEndif" THEN 1 ELSE 0)

\* The i-th, in line order, of the block opens still open after the lines
\* read.
OpenNow == OpenAt(lines, Len(lines) + 1)
IthOpen(i) == CHOOSE j \in OpenNow : Cardinality({k \in OpenNow : k <= j}) = i

\* C25: in every reachable state of process_content the stack is non-empty,
\* its bottom element is true, its length is 1 + block opens seen - close
\* markers accepted, each pushed element is (element below AND condition
\* result), hence every element above a false one is false and the top is
\* the conjunction of the conditions of the blocks now open.
Thm_C25 ==
  /\ include_stack # <<>>
  /\ include_stack[1] = TRUE
  /\ Len(include_stack) = 1 + Ifs(lines, 1, Len(lines)) - AcceptedEnds
  /\ Len(include_stack) = 1 + Cardinality(OpenNow)
  /\ \A i \in 1..(Len(include_stack) - 1) :
       include_stack[i + 1]
         = (include_stack[i] /\ Holds(Parsed[lines[IthOpen(i)]].cond, flags))
  /\ \A i, j \in 1..Len(include_stack) :
       (i < j /\ ~include_stack[i]) => ~include_stack[j]
  /\ Top(include_stack)
       = (\A j \in OpenNow : Holds(Parsed[lines[j]].cond, flags))

\* Three blocks open, the second with a false condition: the third level is
\* false though its own condition is true.
Witness_C25 ==
  /\ lines = <<LineIfA, LineIfB, LineIfA>>
  /\ flags = {A}
  /\ include_stack = <<TRUE, TRUE, FALSE, FALSE>>

\* ------------------------------------------------------------------------
\* C26
\* ------------------------------------------------------------------------
\* The flags of the block-open conditions among s[1..n].
FlagsOpened(s, n) ==
  UNION { Range(Parsed[s[j]].cond.terms) : j \in {i \in 1..n : Kind(s[i]) = "If"} }

\* C26: process_content stops at the first error: when it fails at line k
\* no line after k has been read, and used_flags is its value on entry plus
\* exactly the flags of the block-open conditions on lines 1..k-1; what was
\* recorded before the failure stays.
Thm_C26 ==
  /\ used_flags = used0 \cup FlagsOpened(lines, Len(lines))
  /\ result.tag \in {"MismatchedEndif", "ConditionParse"} =>
       /\ result.line_num = Len(lines)
       /\ line_num = Len(lines)
       /\ Kind(Last(lines)) # "If"
       /\ used_flags = used0 \cup FlagsOpened(lines, Len(lines) - 1)
  /\ result.tag = "Io" =>
       /\ line_num = Len(lines) + 1
       /\ used_flags = used0 \cup FlagsOpened(lines, line_num - 1)
  /\ result.tag = "MismatchedIf" => line_num = Len(lines)

\* A failure at line 3, after the condition of line 1 was recorded on top
\* of what the accumulator held on entry.
Witness_C26 ==
  /\ lines = <<LineIfA, LineEndif, LineEndif>>
  /\ used0 = {B}
  /\ used_flags = {A, B}
  /\ result.tag = "MismatchedEndif"
  /\ line_num = 3

\* ------------------------------------------------------------------------
\* C27
\* ------------------------------------------------------------------------
\* process_content run on the lines s[1..n] alone: fresh locals, an empty
\* accumulator, no file before.
Alone ==
  [output |-> <<>>, include_stack |-> <<TRUE>>, used_flags |-> {}, result |-> Running]

RECURSIVE RunAlone(_, _, _)
RunAlone(s, n, flagSet) ==
  IF n = 0 THEN Alone
  ELSE process_line(RunAlone(s, n - 1, flagSet), s[n], n, flagSet)

\* The file main is at (or has just left) is where r, a run of its lines
\* alone, is; its outcome is that of r.
SameAsAlone(r) ==
  /\ output = r.output
  /\ include_stack = r.include_stack
  /\ used_flags = used0 \cup r.used_flags
  /\ result \in { r.result, end_of_input(r.include_stack, r.output),
                  Err("Io", 0, <<>>), Err("Open", 0, <<>>) }
  /\ result.tag \in {"Ok", "MismatchedIf"} =>
       result = end_of_input(r.include_stack, r.output)
  /\ (pc = "loop" /\ visited # <<>> /\ Last(visited).status = "skipped") =>
       (result.tag = "Ok" /\ all_blank(r.output))
  /\ (pc = "loop" /\ visited # <<>> /\ Last(visited).status = "written") =>
       (result.tag = "Ok" /\ written = r.output)

\* C27: every file starts from a stack holding only the sentinel and an
\* empty output, so what becomes of it (retained lines or error, written
\* or skipped) is a function of its own lines and the flag set, whatever
\* files came before, failed or not, and whatever the accumulator holds;
\* the accumulator gains what the file's lines alone record.
Thm_C27 == pc # "done" => SameAsAlone(RunAlone(lines, Len(lines), flags))

\* A second file retains its content line at depth 1 after a first file
\* that recorded a and failed.
Witness_C27 ==
  /\ Len(visited) = 1
  /\ visited[1].status = "error"
  /\ used0 = {A}
  /\ pc = "content"
  /\ lines = <<LineContent>>
  /\ output = <<LineContent>>
  /\ include_stack = <<TRUE>>

\* ------------------------------------------------------------------------
\* C28
\* ------------------------------------------------------------------------
\* The files of the walk that ended in an error.
FailedFiles == {i \in 1..Len(visited) : visited[i].status = "error"}

NeverTrueReported == \E m \in report.messages : m.note = "never true"

\* ------------------------------------------------------------------------
\* C29
\* ------------------------------------------------------------------------
\* What the line just read did, as the kind its text alone is classified
\* into prescribes.
HandledAs(kind) ==
  CASE kind = "If" ->
         /\ Len(include_stack') = Len(include_stack) + 1
         /\ result' = Running
    [] kind = "Endif" ->
         \/ Len(include_stack') = Len(include_stack) - 1 /\ result' = Running
         \/ include_stack' = include_stack /\ result'.tag = "MismatchedEndif"
    [] kind = "Content" ->
         /\ include_stack' = include_stack
         /\ used_flags' = used_flags
         /\ result' = Running
    [] OTHER -> FALSE

====
